---- MODULE Spec2Model ----
(***************************************************************************)
(* Model of utils.py of extended_kalman_filter_python: the Cartesian/polar *)
(* conversions, the radar Jacobian and the MeasurementPacket record.       *)
(*                                                                         *)
(* Floating-point values are modelled as exact real numbers of the form    *)
(*     (num / den) * sqrt(rad)        rad a squarefree positive integer    *)
(* which is closed under every operation utils.py applies to its inputs    *)
(* when these are rationals.  den = 0 encodes the IEEE specials: 0/0 is    *)
(* NaN and +-1/0 is +-infinity.  Angles are modelled as                    *)
(*     half * (pi/2) + arctan(tan)    half in -2..2, tan a rational        *)
(***************************************************************************)
EXTENDS Integers, Sequences, FiniteSets, TLC

VARIABLES state_vector, as_numpy, polar, cart, Hj, packet, record, zvec

vars == <<state_vector, as_numpy, polar, cart, Hj, packet, record, zvec>>

----------------------------------------------------------------------------
(* Bounds of the input space *)

MaxPos == 4       \* positions are k/s with k in -MaxPos..MaxPos
MaxVel == 1       \* velocities are integers in -MaxVel..MaxVel
TinyDen == 200    \* the fine position scale s (positions near the origin)
MaxField == 1     \* numeric packet fields range over 0..MaxField

----------------------------------------------------------------------------
(* Exact arithmetic standing for Python's float operators *)

Abs(i) == IF i < 0 THEN -i ELSE i

Sgn(i) == IF i < 0 THEN -1 ELSE IF i = 0 THEN 0 ELSE 1

RECURSIVE GCD(_, _)
GCD(a, b) == IF b = 0 THEN a ELSE GCD(b, a % b)

Zero == [num |-> 0, den |-> 1, rad |-> 1]

NaN == [num |-> 0, den |-> 0, rad |-> 1]

Inf(sign) == [num |-> sign, den |-> 0, rad |-> 1]

IsFinite(x) == x.den # 0

IsNaN(x) == x.den = 0 /\ x.num = 0

\* canonical form of (n/d)*sqrt(r), d > 0, r squarefree
Norm(n, d, r) ==
    IF n = 0 THEN Zero
    ELSE LET g == GCD(Abs(n), d)
         IN  [num |-> n \div g, den |-> d \div g, rad |-> r]

Rat(n, d) == Norm(n, d, 1)

\* an upper bound of sqrt(n) within the 32-bit integers
RootBound(n) ==
    IF n < 100 THEN 10
    ELSE IF n < 10000 THEN 100
    ELSE IF n < 1000000 THEN 1000
    ELSE 46340

\* largest t with t*t dividing n (n >= 1)
SqPart(n) ==
    LET S == {t \in 1 .. RootBound(n) : t * t <= n /\ n % (t * t) = 0}
    IN  CHOOSE t \in S : \A u \in S : u <= t

Neg(a) == [a EXCEPT !.num = -a.num]

\* a + b ; the code only ever adds rational (rad = 1) finite values
Add(a, b) ==
    IF a = Zero THEN b
    ELSE IF b = Zero THEN a
    ELSE Norm(a.num * b.den + b.num * a.den, a.den * b.den, a.rad)

Sub(a, b) == Add(a, Neg(b))

\* a * b
Mul(a, b) ==
    IF IsNaN(a) \/ IsNaN(b) THEN NaN
    ELSE IF ~IsFinite(a) \/ ~IsFinite(b)
         THEN (IF a.num * b.num = 0 THEN NaN ELSE Inf(Sgn(a.num) * Sgn(b.num)))
    ELSE LET g == GCD(a.rad, b.rad)
         IN  Norm(a.num * b.num * g, a.den * b.den,
                  (a.rad \div g) * (b.rad \div g))

\* 1 / b for finite b # 0
Inv(b) == Norm(Sgn(b.num) * b.den, Abs(b.num) * b.rad, b.rad)

\* a / b under IEEE semantics (numpy scalars): x/0 is NaN or +-infinity.
\* Python's own float division raises ZeroDivisionError instead; the callers
\* below test for that case before they use the quotient.
Div(a, b) ==
    IF IsNaN(a) \/ IsNaN(b) THEN NaN
    ELSE IF b = Zero THEN (IF a.num = 0 THEN NaN ELSE Inf(Sgn(a.num)))
    ELSE IF ~IsFinite(a) \/ ~IsFinite(b) THEN NaN
    ELSE Mul(a, Inv(b))

Square(a) == Mul(a, a)

\* a < b for finite rationals
Less(a, b) == a.num * b.den < b.num * a.den

IsNegative(a) == IsFinite(a) /\ a.num < 0

\* math.sqrt(a) for a rational a >= 0
Sqrt(a) ==
    IF IsNaN(a) THEN NaN
    ELSE IF a = Zero THEN Zero
    ELSE LET tp == SqPart(a.num)
             tq == SqPart(a.den)
             m1 == a.num \div (tp * tp)
             m2 == a.den \div (tq * tq)
         IN  Norm(tp, tq * m2, m1 * m2)

\* math.pow(a, 3/2) for a rational a >= 0 (a < 0 is a math domain error,
\* tested by the caller); pow(nan, y) is nan
Pow3Half(a) == IF IsNaN(a) THEN NaN ELSE Mul(a, Sqrt(a))

----------------------------------------------------------------------------
(* Angles *)

Angle(h, t) == [half |-> h, tan |-> t]

\* math.atan2(y, x) for finite rationals x, y
atan2(y, x) ==
    IF x.num > 0 THEN Angle(0, Div(y, x))
    ELSE IF x.num < 0 THEN (IF y.num >= 0 THEN Angle(2, Div(y, x))
                                          ELSE Angle(-2, Div(y, x)))
    ELSE IF y.num > 0 THEN Angle(1, Zero)
    ELSE IF y.num < 0 THEN Angle(-1, Zero)
    ELSE Angle(0, Zero)

\* cos and sin of arctan(t): 1/sqrt(1+t^2) and t/sqrt(1+t^2)
CosAtan(t) == Div(Rat(1, 1), Sqrt(Add(Rat(1, 1), Square(t))))

SinAtan(t) == Mul(t, CosAtan(t))

\* math.cos(phi)
cos(phi) ==
    CASE phi.half = 0 -> CosAtan(phi.tan)
      [] phi.half = 1 -> Neg(SinAtan(phi.tan))
      [] phi.half = -1 -> SinAtan(phi.tan)
      [] OTHER -> Neg(CosAtan(phi.tan))

\* math.sin(phi)
sin(phi) ==
    CASE phi.half = 0 -> SinAtan(phi.tan)
      [] phi.half = 1 -> CosAtan(phi.tan)
      [] phi.half = -1 -> Neg(CosAtan(phi.tan))
      [] OTHER -> Neg(SinAtan(phi.tan))

----------------------------------------------------------------------------
(* Outcomes of a call *)

NotCalled == [kind |-> "none"]

Raised(exc) == [kind |-> exc]

Returned(v) == [kind |-> "ret", value |-> v]

----------------------------------------------------------------------------
(* utils.py *)

state_vector_to_scalars(sv) == <<sv[1][1], sv[2][1], sv[3][1], sv[4][1]>>

\* cart_2_polar with the arguments of atan2 exchanged
cart_2_polar_swapped_atan2(sv, numpy) ==
    LET s == state_vector_to_scalars(sv)
        px == s[1]
        py == s[2]
        vx == s[3]
        vy == s[4]
        ro == Sqrt(Add(Square(px), Square(py)))
        phi == atan2(px, py)
        ro_dot == Div(Add(Mul(px, vx), Mul(py, vy)), ro)
    IN  IF ro = Zero /\ ~numpy
        THEN Raised("ValueError")
        ELSE Returned(<<<<ro>>, <<phi>>, <<ro_dot>>>>)

\* cart_2_polar(state_vector); numpy tells whether the elements of the state
\* vector are numpy scalars (an ndarray) or Python numbers (nested lists)
cart_2_polar(sv, numpy) ==
    LET s == state_vector_to_scalars(sv)
        px == s[1]
        py == s[2]
        vx == s[3]
        vy == s[4]
        ro == Sqrt(Add(Square(px), Square(py)))
        phi == atan2(py, px)
        ro_dot == Div(Add(Mul(px, vx), Mul(py, vy)), ro)
    IN  IF ro = Zero /\ ~numpy
        THEN Raised("ValueError")   \* ZeroDivisionError caught and re-raised
        ELSE Returned(<<<<ro>>, <<phi>>, <<ro_dot>>>>)   \* reshape((3,1))

\* polar_2_cart with sin and cos exchanged
polar_2_cart_swapped(ro, phi, ro_dot) == <<Mul(sin(phi), ro), Mul(cos(phi), ro)>>

polar_2_cart(ro, phi, ro_dot) == <<Mul(cos(phi), ro), Mul(sin(phi), ro)>>

ZeroRow == <<Zero, Zero, Zero, Zero>>

\* calculate_jacobian without the minus sign of Hj[1,0]
calculate_jacobian_unsigned(sv, numpy) ==
    LET s == state_vector_to_scalars(sv)
        px == s[1]
        py == s[2]
        vx == s[3]
        vy == s[4]
        Hj0 == <<ZeroRow, ZeroRow, ZeroRow>>
        xy_squared_sum == Add(Square(px), Square(py))
        xy_squared_sum_sqrt == Sqrt(xy_squared_sum)
        xvx_yvy_mul_diff == Sub(Mul(vx, py), Mul(vy, px))
        px_div_xy_squared_sum_sqrt == Div(px, xy_squared_sum_sqrt)
        py_div_xy_squared_sum_sqrt == Div(py, xy_squared_sum_sqrt)
        base20 == Div(Mul(py, xvx_yvy_mul_diff), xy_squared_sum)
        base21 == Div(Mul(px, xvx_yvy_mul_diff), xy_squared_sum)
        Hj1 == [Hj0 EXCEPT ![1][1] = px_div_xy_squared_sum_sqrt,
                           ![1][2] = py_div_xy_squared_sum_sqrt,
                           ![2][1] = Div(py, xy_squared_sum),
                           ![2][2] = Div(px, xy_squared_sum),
                           ![3][1] = Pow3Half(base20),
                           ![3][2] = Pow3Half(base21)]
        Hj2 == [Hj1 EXCEPT ![3][3] = px_div_xy_squared_sum_sqrt]
        Hj3 == [Hj2 EXCEPT ![3][3] = py_div_xy_squared_sum_sqrt]
    IN  IF xy_squared_sum_sqrt = Zero /\ ~numpy
        THEN Raised("ZeroDivisionError")            \* line 69, uncaught
        ELSE IF IsNegative(base20) \/ IsNegative(base21)
        THEN Raised("ValueError")                   \* math.pow domain error
        ELSE Returned(Hj3)

calculate_jacobian(sv, numpy) ==
    LET s == state_vector_to_scalars(sv)
        px == s[1]
        py == s[2]
        vx == s[3]
        vy == s[4]
        Hj0 == <<ZeroRow, ZeroRow, ZeroRow>>
        xy_squared_sum == Add(Square(px), Square(py))
        xy_squared_sum_sqrt == Sqrt(xy_squared_sum)
        xvx_yvy_mul_diff == Sub(Mul(vx, py), Mul(vy, px))
        px_div_xy_squared_sum_sqrt == Div(px, xy_squared_sum_sqrt)
        py_div_xy_squared_sum_sqrt == Div(py, xy_squared_sum_sqrt)
        base20 == Div(Mul(py, xvx_yvy_mul_diff), xy_squared_sum)
        base21 == Div(Mul(px, xvx_yvy_mul_diff), xy_squared_sum)
        Hj1 == [Hj0 EXCEPT ![1][1] = px_div_xy_squared_sum_sqrt,
                           ![1][2] = py_div_xy_squared_sum_sqrt,
                           ![2][1] = Div(Neg(py), xy_squared_sum),
                           ![2][2] = Div(px, xy_squared_sum),
                           ![3][1] = Pow3Half(base20),
                           ![3][2] = Pow3Half(base21)]
        Hj2 == [Hj1 EXCEPT ![3][3] = px_div_xy_squared_sum_sqrt]
        Hj3 == [Hj2 EXCEPT ![3][3] = py_div_xy_squared_sum_sqrt]
    IN  IF xy_squared_sum_sqrt = Zero /\ ~numpy
        THEN Raised("ZeroDivisionError")            \* line 69, uncaught
        ELSE IF IsNegative(base20) \/ IsNegative(base21)
        THEN Raised("ValueError")                   \* math.pow domain error
        ELSE Returned(Hj3)

----------------------------------------------------------------------------
(* SensorType and MeasurementPacket *)

LIDAR == "LIDAR"

RADAR == "RADAR"

\* packet[k] with Python's 0-based index
Item(pkt, k) == pkt[k + 1]

\* a constructor that knows the two tags only
sensor_type_of_strict(pkt) ==
    IF Item(pkt, 0) = "L" THEN LIDAR
    ELSE IF Item(pkt, 0) = "R" THEN RADAR
    ELSE "UNKNOWN"

sensor_type_of(pkt) == IF Item(pkt, 0) = "L" THEN LIDAR ELSE RADAR

\* setup_radar reading the timestamp where setup_lidar finds it
setup_radar_lidar_timestamp(self, pkt) ==
    IF Len(pkt) < 9 THEN Raised("IndexError")
    ELSE [rho_measured    |-> Item(pkt, 1),
          phi_measured    |-> Item(pkt, 2),
          rhodot_measured |-> Item(pkt, 3),
          timestamp       |-> Item(pkt, 3),
          x_groundtruth   |-> Item(pkt, 5),
          y_groundtruth   |-> Item(pkt, 6),
          vx_groundtruth  |-> Item(pkt, 7),
          vy_groundtruth  |-> Item(pkt, 8)] @@ self

setup_radar(self, pkt) ==
    IF Len(pkt) < 9 THEN Raised("IndexError")
    ELSE [rho_measured    |-> Item(pkt, 1),
          phi_measured    |-> Item(pkt, 2),
          rhodot_measured |-> Item(pkt, 3),
          timestamp       |-> Item(pkt, 4),
          x_groundtruth   |-> Item(pkt, 5),
          y_groundtruth   |-> Item(pkt, 6),
          vx_groundtruth  |-> Item(pkt, 7),
          vy_groundtruth  |-> Item(pkt, 8)] @@ self

setup_lidar(self, pkt) ==
    IF Len(pkt) < 8 THEN Raised("IndexError")
    ELSE [x_measured     |-> Item(pkt, 1),
          y_measured     |-> Item(pkt, 2),
          timestamp      |-> Item(pkt, 3),
          x_groundtruth  |-> Item(pkt, 4),
          y_groundtruth  |-> Item(pkt, 5),
          vx_groundtruth |-> Item(pkt, 6),
          vy_groundtruth |-> Item(pkt, 7)] @@ self

\* MeasurementPacket.__init__
MeasurementPacket(pkt) ==
    IF Len(pkt) = 0 THEN Raised("IndexError")
    ELSE LET self == [kind |-> "obj", sensor_type |-> sensor_type_of(pkt)]
         IN  IF self.sensor_type = LIDAR THEN setup_lidar(self, pkt)
             ELSE IF self.sensor_type = RADAR THEN setup_radar(self, pkt)
             ELSE self

\* MeasurementPacket.z
z(self) ==
    IF self.sensor_type = LIDAR
    THEN Returned(<<<<self.x_measured>>, <<self.y_measured>>>>)
    ELSE IF self.sensor_type = RADAR
    THEN Returned(<<<<self.rho_measured>>, <<self.phi_measured>>,
                    <<self.rhodot_measured>>>>)
    ELSE Returned(<<>>)

----------------------------------------------------------------------------
(* Inputs *)

Coords == (-MaxPos) .. MaxPos

Vels == (-MaxVel) .. MaxVel

Scales == {1, TinyDen}

Positions == {<<Rat(k, s), Rat(l, s)>> : k \in Coords, l \in Coords, s \in Scales}

Velocities == {<<Rat(a, 1), Rat(b, 1)>> : a \in Vels, b \in Vels}

\* a 4x1 column vector
StateVector(px, py, vx, vy) == <<<<px>>, <<py>>, <<vx>>, <<vy>>>>

StateVectors ==
    {StateVector(p[1], p[2], v[1], v[2]) : p \in Positions, v \in Velocities}

Tags == {"L", "R", "X"}

FieldCounts == {7, 8}

Packets ==
    UNION {{<<t>> \o f : t \in Tags, f \in [1 .. n -> 0 .. MaxField]} :
           n \in FieldCounts}

\* a range rate other than the one cart_2_polar computed
OtherRoDot == Rat(7, 1)

----------------------------------------------------------------------------
(* The calls a client makes *)

Init ==
    /\ \/ /\ state_vector \in StateVectors
          /\ as_numpy \in BOOLEAN
          /\ packet = <<>>
       \/ /\ state_vector = StateVector(Zero, Zero, Zero, Zero)
          /\ as_numpy = FALSE
          /\ packet \in Packets
    /\ polar = NotCalled
    /\ cart = NotCalled
    /\ Hj = NotCalled
    /\ record = NotCalled
    /\ zvec = NotCalled

CartToPolar ==
    /\ polar' = cart_2_polar(state_vector, as_numpy)
    /\ UNCHANGED <<state_vector, as_numpy, cart, Hj, packet, record, zvec>>

PolarToCart ==
    /\ polar.kind = "ret"
    /\ \E rd \in {polar.value[3][1], OtherRoDot} :
          cart' = [kind |-> "ret", ro_dot |-> rd,
                   value |-> polar_2_cart(polar.value[1][1],
                                          polar.value[2][1], rd)]
    /\ UNCHANGED <<state_vector, as_numpy, polar, Hj, packet, record, zvec>>

CalculateJacobian ==
    /\ Hj' = calculate_jacobian(state_vector, as_numpy)
    /\ UNCHANGED <<state_vector, as_numpy, polar, cart, packet, record, zvec>>

Construct ==
    /\ record' = MeasurementPacket(packet)
    /\ UNCHANGED <<state_vector, as_numpy, polar, cart, Hj, packet, zvec>>

ReadZ ==
    /\ record.kind = "obj"
    /\ zvec' = z(record)
    /\ UNCHANGED <<state_vector, as_numpy, polar, cart, Hj, packet, record>>

Next ==
    \/ CartToPolar
    \/ PolarToCart
    \/ CalculateJacobian
    \/ Construct
    \/ ReadZ

Spec == Init /\ [][Next]_vars

----------------------------------------------------------------------------
(* Vocabulary of the properties *)

PX == state_vector[1][1]

PY == state_vector[2][1]

VX == state_vector[3][1]

VY == state_vector[4][1]

\* c1, the squared range, and c2, the range
SqRange == Add(Square(PX), Square(PY))

Range == Sqrt(SqRange)

\* x / c3 with c3 = c1 * c2
DivC3(x) == Div(Div(x, SqRange), Range)

\* the threshold 1e-4 on the squared range
Threshold == Rat(1, 10000)

AtOrigin == PX = Zero /\ PY = Zero

IsState(a, b, c, d) ==
    state_vector = StateVector(Rat(a, 1), Rat(b, 1), Rat(c, 1), Rat(d, 1))

\* entry (i, j) of the returned Jacobian, 0-based
H(i, j) == Hj.value[i + 1][j + 1]

Ro == polar.value[1][1]

Phi == polar.value[2][1]

RoDot == polar.value[3][1]

\* -pi < phi <= pi, given that |arctan| < pi/2
InHalfOpenTurn(phi) ==
    \/ phi.half \in {-1, 0, 1}
    \/ phi.half = 2 /\ phi.tan.num <= 0
    \/ phi.half = -2 /\ phi.tan.num > 0

Tag == Item(packet, 0)

----------------------------------------------------------------------------
(* Properties *)

\* C1: calculate_jacobian fails with the domain error for every state whose
\* squared range px^2+py^2 is below 1e-4, whatever vx and vy are; it never
\* returns a matrix for such a state.
C1_SingularRaises ==
    (Hj.kind # "none" /\ Less(SqRange, Threshold)) => Hj.kind = "ValueError"

\* C2: cart_2_polar on a state with px = py = 0 raises the domain error for
\* every vx, vy, and no returned vector contains infinity or NaN.
C2_ZeroRangeRaises ==
    /\ (polar.kind # "none" /\ AtOrigin) => polar.kind = "ValueError"
    /\ polar.kind = "ret" => IsFinite(Ro) /\ IsFinite(RoDot)

\* C3: in the returned Jacobian entry (2,2) is px/c2 and entry (2,3) is py/c2,
\* two distinct cells, so the two entries differ whenever px # py.
C3_Row2Velocity ==
    Hj.kind = "ret" =>
        /\ H(2, 2) = Div(PX, Range)
        /\ H(2, 3) = Div(PY, Range)
        /\ PX # PY => H(2, 2) # H(2, 3)

\* C4: in the returned Jacobian entry (2,0) is py*(vx*py - vy*px)/c3 and entry
\* (2,1) is px*(px*vy - py*vx)/c3, with c3 = c1*c2.
C4_Row2Position ==
    Hj.kind = "ret" =>
        /\ H(2, 0) = DivC3(Mul(PY, Sub(Mul(VX, PY), Mul(VY, PX))))
        /\ H(2, 1) = DivC3(Mul(PX, Sub(Mul(PX, VY), Mul(PY, VX))))

\* C5: for every state with px^2+py^2 >= 1e-4 and any vx, vy,
\* calculate_jacobian raises nothing and returns a 3x4 matrix of finite reals.
C5_RegularReturnsFinite ==
    (Hj.kind # "none" /\ ~Less(SqRange, Threshold)) =>
        /\ Hj.kind = "ret"
        /\ Len(Hj.value) = 3
        /\ \A i \in 1 .. 3 :
              /\ Len(Hj.value[i]) = 4
              /\ \A j \in 1 .. 4 : IsFinite(Hj.value[i][j])

\* C6: for every state with px^2+py^2 >= 1e-4 rows 0 and 1 of the returned
\* Jacobian are (px/c2, py/c2, 0, 0) and (-py/c1, px/c1, 0, 0); state
\* (3, 4, 0, 0) gives (0.6, 0.8, 0, 0) and (-0.16, 0.12, 0, 0).
C6_Rows01 ==
    /\ (Hj.kind = "ret" /\ ~Less(SqRange, Threshold)) =>
          /\ Mul(H(0, 0), Range) = PX
          /\ Mul(H(0, 1), Range) = PY
          /\ H(0, 2) = Zero /\ H(0, 3) = Zero
          /\ Mul(H(1, 0), SqRange) = Neg(PY)
          /\ Mul(H(1, 1), SqRange) = PX
          /\ H(1, 2) = Zero /\ H(1, 3) = Zero
    /\ (Hj.kind # "none" /\ IsState(3, 4, 0, 0)) =>
          /\ Hj.kind = "ret"
          /\ Hj.value[1] = <<Rat(3, 5), Rat(4, 5), Zero, Zero>>
          /\ Hj.value[2] = <<Rat(-4, 25), Rat(3, 25), Zero, Zero>>

C6_Witness ==
    /\ Hj.kind = "ret"
    /\ IsState(3, 4, 0, 0)
    /\ H(0, 0) = Rat(3, 5)

\* C7: for every state with px^2+py^2 > 0 (hence above any epsilon),
\* cart_2_polar succeeds and polar_2_cart of its range and bearing gives back
\* exactly the pair (px, py), whichever range rate is passed; the velocity is
\* not part of the result.
C7_RoundTrip ==
    /\ (polar.kind # "none" /\ Less(Zero, SqRange)) => polar.kind = "ret"
    /\ (cart.kind = "ret" /\ Less(Zero, SqRange)) => cart.value = <<PX, PY>>

C7_Witness ==
    /\ cart.kind = "ret"
    /\ PX.num < 0 /\ PY.num < 0 /\ PX # PY
    /\ Less(Threshold, SqRange)
    /\ cart.ro_dot # RoDot
    /\ cart.value = <<PX, PY>>

\* C8: for every state with (px, py) # (0, 0) cart_2_polar returns a 3x1
\* vector (range, bearing, range rate) with range = sqrt(px^2+py^2) >= 0,
\* bearing the angle of (px, py) in (-pi, pi], and range rate
\* (px*vx + py*vy)/range; state (3, 4, 0, 0) gives range 5, range rate 0.
C8_Polar ==
    /\ (polar.kind # "none" /\ ~AtOrigin) =>
          /\ polar.kind = "ret"
          /\ Len(polar.value) = 3
          /\ \A i \in 1 .. 3 : Len(polar.value[i]) = 1
          /\ Ro.num >= 0 /\ Ro.den > 0
          /\ Square(Ro) = SqRange
          /\ InHalfOpenTurn(Phi)
          /\ Mul(cos(Phi), Ro) = PX
          /\ Mul(sin(Phi), Ro) = PY
          /\ Mul(RoDot, Ro) = Add(Mul(PX, VX), Mul(PY, VY))
    /\ (polar.kind # "none" /\ IsState(3, 4, 0, 0)) =>
          Ro = Rat(5, 1) /\ RoDot = Zero

C8_Witness ==
    /\ polar.kind = "ret"
    /\ PX.num < 0 /\ PY.num > 0
    /\ VX # Zero
    /\ Phi.half = 2
    /\ RoDot # Zero

\* C9: a record built from an 'L' packet is LIDAR with observation
\* (field 1, field 2), timestamp field 3 and ground truth fields 4..7; one
\* built from an 'R' packet is RADAR with observation (field 1, field 2,
\* field 3), timestamp field 4 and ground truth fields 5..8.  The observation
\* has 2 elements exactly for LIDAR and 3 exactly for RADAR.
C9_Layout ==
    /\ (record.kind # "none" /\ Len(packet) >= 8 /\ Tag = "L") =>
          /\ record.kind = "obj"
          /\ record.sensor_type = LIDAR
          /\ record.x_measured = Item(packet, 1)
          /\ record.y_measured = Item(packet, 2)
          /\ record.timestamp = Item(packet, 3)
          /\ <<record.x_groundtruth, record.y_groundtruth,
               record.vx_groundtruth, record.vy_groundtruth>>
                = <<Item(packet, 4), Item(packet, 5),
                    Item(packet, 6), Item(packet, 7)>>
          /\ zvec.kind = "ret" =>
                zvec.value = <<<<Item(packet, 1)>>, <<Item(packet, 2)>>>>
    /\ (record.kind # "none" /\ Len(packet) >= 9 /\ Tag = "R") =>
          /\ record.kind = "obj"
          /\ record.sensor_type = RADAR
          /\ record.rho_measured = Item(packet, 1)
          /\ record.phi_measured = Item(packet, 2)
          /\ record.rhodot_measured = Item(packet, 3)
          /\ record.timestamp = Item(packet, 4)
          /\ <<record.x_groundtruth, record.y_groundtruth,
               record.vx_groundtruth, record.vy_groundtruth>>
                = <<Item(packet, 5), Item(packet, 6),
                    Item(packet, 7), Item(packet, 8)>>
          /\ zvec.kind = "ret" =>
                zvec.value = <<<<Item(packet, 1)>>, <<Item(packet, 2)>>,
                               <<Item(packet, 3)>>>>
    /\ zvec.kind = "ret" =>
          /\ Len(zvec.value) = 2 <=> record.sensor_type = LIDAR
          /\ Len(zvec.value) = 3 <=> record.sensor_type = RADAR

C9_Witness ==
    /\ zvec.kind = "ret"
    /\ Tag = "R"
    /\ Len(zvec.value) = 3
    /\ Item(packet, 3) # Item(packet, 4)
    /\ record.timestamp = Item(packet, 4)

\* C10: constructing a record from a packet whose tag is anything but 'L'
\* raises no tag error: the record gets sensor type RADAR and the RADAR layout
\* (fields 1..8); every constructed record is LIDAR or RADAR.
C10_NonLidarIsRadar ==
    /\ (record.kind # "none" /\ Len(packet) >= 9 /\ Tag # "L") =>
          /\ record.kind = "obj"
          /\ record.sensor_type = RADAR
          /\ <<record.rho_measured, record.phi_measured,
               record.rhodot_measured, record.timestamp>>
                = <<Item(packet, 1), Item(packet, 2),
                    Item(packet, 3), Item(packet, 4)>>
          /\ <<record.x_groundtruth, record.y_groundtruth,
               record.vx_groundtruth, record.vy_groundtruth>>
                = <<Item(packet, 5), Item(packet, 6),
                    Item(packet, 7), Item(packet, 8)>>
    /\ record.kind = "obj" => record.sensor_type \in {LIDAR, RADAR}

C10_Witness ==
    /\ record.kind = "obj"
    /\ Tag = "X"
    /\ record.sensor_type = RADAR
    /\ zvec.kind = "ret"
    /\ Len(zvec.value) = 3

====
